---- MODULE Spec2Model ----
(***************************************************************************)
(* Stress-Level-Prediction: the FastAPI service of api.py together with    *)
(* the pydantic schema of pydantic_models.py.                              *)
(*                                                                         *)
(* A request is a task that runs from the arrival of its JSON body to its  *)
(* response; tasks interleave at the awaits on database.execute.  The       *)
(* store and the classifier artifact are external: a storage call either   *)
(* executes or raises (for one of several causes), model.predict returns   *)
(* some class index.                                                       *)
(*                                                                         *)
(* The user-facing texts of the source are Russian; they are written here  *)
(* in Latin transliteration, one distinct string per distinct source text. *)
(***************************************************************************)
EXTENDS Integers, Sequences, FiniteSets, TLC

VARIABLES pc, op, raw, query, worker, worker_prediction, trace, resp, database

vars == <<pc, op, raw, query, worker, worker_prediction, trace, resp, database>>

(***************************************************************************)
(* Bounds                                                                  *)
(***************************************************************************)
NumReqs == 2

MaxIndex == 3

Margin == 2

Reqs == 1..NumReqs

None == [none |-> TRUE]

(***************************************************************************)
(* JSON values of a request body                                           *)
(***************************************************************************)
JInt(n) == [t |-> "int", n |-> n, s |-> ""]
JStr(s) == [t |-> "str", n |-> 0, s |-> s]
JBool(b) == [t |-> "bool", n |-> IF b THEN 1 ELSE 0, s |-> ""]

(***************************************************************************)
(* pydantic_models.py: the field lists, in definition order (inherited     *)
(* fields first), which is the key order of .dict()                        *)
(***************************************************************************)
WorkerBase == <<"first_name", "last_name", "surname">>

WorkerWithPrediction == WorkerBase \o <<"stress_level">>

WorkerWithHistory == WorkerBase \o <<"mental_health_history">>

WorkerWithFeatures ==
    WorkerWithHistory \o
    <<"info_date", "anxiety", "self_esteem", "depression", "headache",
      "blood_pressure", "sleep_quality", "breathing_problem", "noise_level",
      "social_support", "extracurricular_activities">>

\* Field(ge=..., le=...) of the integer fields
FieldBounds ==
    [anxiety                    |-> [ge |-> 0, le |-> 21],
     self_esteem                |-> [ge |-> 0, le |-> 30],
     depression                 |-> [ge |-> 0, le |-> 27],
     headache                   |-> [ge |-> 0, le |-> 5],
     blood_pressure             |-> [ge |-> 1, le |-> 3],
     sleep_quality              |-> [ge |-> 0, le |-> 5],
     breathing_problem          |-> [ge |-> 0, le |-> 5],
     noise_level                |-> [ge |-> 0, le |-> 5],
     social_support             |-> [ge |-> 0, le |-> 3],
     extracurricular_activities |-> [ge |-> 0, le |-> 5]]

IntFields == DOMAIN FieldBounds

\* Field(..., default=1): the only field with a default
FieldDefaults == [blood_pressure |-> 1]

FieldType(f) ==
    IF f \in IntFields THEN "int"
    ELSE IF f = "mental_health_history" THEN "bool"
    ELSE IF f = "info_date" THEN "datetime"
    ELSE "str"

Range(seq) == {seq[i] : i \in 1..Len(seq)}

(***************************************************************************)
(* datetime.strptime(value, "%Y-%m-%d %H:%M:%S")                           *)
(***************************************************************************)
Digits == <<"0", "1", "2", "3", "4", "5", "6", "7", "8", "9">>

CharAt(s, p) == IF p >= 1 /\ p <= Len(s) THEN SubSeq(s, p, p) ELSE ""

IsDigit(c) == c \in Range(Digits)

DigitVal(c) == (CHOOSE i \in 1..10 : Digits[i] = c) - 1

Fail == [ok |-> FALSE, val |-> 0, p |-> 0]

\* %Y: exactly four digits
ParseYear(s, p) ==
    IF \A i \in 0..3 : IsDigit(CharAt(s, p + i))
    THEN [ok |-> TRUE,
          val |-> DigitVal(CharAt(s, p)) * 1000 + DigitVal(CharAt(s, p + 1)) * 100
                  + DigitVal(CharAt(s, p + 2)) * 10 + DigitVal(CharAt(s, p + 3)),
          p |-> p + 4]
    ELSE Fail

\* %m %d %H %M %S: two digits when they form a value of lo2..hi2, else one
\* digit of lo1..9
ParseTwo(s, p, lo2, hi2, lo1) ==
    LET c1 == CharAt(s, p)
        c2 == CharAt(s, p + 1)
        v2 == DigitVal(c1) * 10 + DigitVal(c2)
    IN  IF IsDigit(c1) /\ IsDigit(c2) /\ v2 >= lo2 /\ v2 <= hi2
        THEN [ok |-> TRUE, val |-> v2, p |-> p + 2]
        ELSE IF IsDigit(c1) /\ DigitVal(c1) >= lo1
        THEN [ok |-> TRUE, val |-> DigitVal(c1), p |-> p + 1]
        ELSE Fail

\* a literal character of the format
ParseLit(s, p, c) == IF CharAt(s, p) = c THEN p + 1 ELSE 0

\* the blank of the format matches one or more blanks
RECURSIVE SkipBlanks(_, _)
SkipBlanks(s, p) == IF CharAt(s, p) = " " THEN SkipBlanks(s, p + 1) ELSE p

ParseBlank(s, p) == IF CharAt(s, p) = " " THEN SkipBlanks(s, p) ELSE 0

IsLeap(y) == (y % 4 = 0 /\ y % 100 # 0) \/ y % 400 = 0

DaysInMonth(y, m) ==
    IF m = 2 THEN (IF IsLeap(y) THEN 29 ELSE 28)
    ELSE IF m \in {4, 6, 9, 11} THEN 30 ELSE 31

NoDate == [ok |-> FALSE, year |-> 0, month |-> 0, day |-> 0,
           hour |-> 0, minute |-> 0, second |-> 0]

strptime(s) ==
    LET y  == ParseYear(s, 1)
        l1 == IF y.ok THEN ParseLit(s, y.p, "-") ELSE 0
        m  == IF l1 > 0 THEN ParseTwo(s, l1, 1, 12, 1) ELSE Fail
        l2 == IF m.ok THEN ParseLit(s, m.p, "-") ELSE 0
        d  == IF l2 > 0 THEN ParseTwo(s, l2, 1, 31, 1) ELSE Fail
        l3 == IF d.ok THEN ParseBlank(s, d.p) ELSE 0
        H  == IF l3 > 0 THEN ParseTwo(s, l3, 0, 23, 0) ELSE Fail
        l4 == IF H.ok THEN ParseLit(s, H.p, ":") ELSE 0
        M  == IF l4 > 0 THEN ParseTwo(s, l4, 0, 59, 0) ELSE Fail
        l5 == IF M.ok THEN ParseLit(s, M.p, ":") ELSE 0
        S  == IF l5 > 0 THEN ParseTwo(s, l5, 0, 61, 0) ELSE Fail
    IN  IF /\ S.ok
           /\ S.p = Len(s) + 1
           /\ y.val >= 1
           /\ d.val <= DaysInMonth(y.val, m.val)
           /\ S.val <= 59
        THEN [ok |-> TRUE, year |-> y.val, month |-> m.val, day |-> d.val,
              hour |-> H.val, minute |-> M.val, second |-> S.val]
        ELSE NoDate

\* the pre-validator of info_date: a value that is no string raises
\* TypeError, a string of another format raises ValueError
parse_datetime(value) == IF value.t = "str" THEN strptime(value.s) ELSE NoDate

(***************************************************************************)
(* Schema validation of a request body against a model                     *)
(***************************************************************************)
HasDefault(f) == f \in DOMAIN FieldDefaults

\* variant: the pre-validator of info_date lets any value through
FieldOkAnyDate(f, body) ==
    IF f \notin DOMAIN body THEN HasDefault(f)
    ELSE CASE FieldType(f) = "int" ->
                /\ body[f].t = "int"
                /\ body[f].n >= FieldBounds[f].ge
                /\ body[f].n <= FieldBounds[f].le
           [] FieldType(f) = "bool" -> body[f].t = "bool"
           [] FieldType(f) = "datetime" -> TRUE
           [] OTHER -> body[f].t = "str"

\* variant: the upper bound is exclusive (lt in place of le)
FieldOkExclusiveUpper(f, body) ==
    IF f \notin DOMAIN body THEN HasDefault(f)
    ELSE CASE FieldType(f) = "int" ->
                /\ body[f].t = "int"
                /\ body[f].n >= FieldBounds[f].ge
                /\ body[f].n < FieldBounds[f].le
           [] FieldType(f) = "bool" -> body[f].t = "bool"
           [] FieldType(f) = "datetime" -> parse_datetime(body[f]).ok
           [] OTHER -> body[f].t = "str"

FieldOk(f, body) ==
    IF f \notin DOMAIN body THEN HasDefault(f)
    ELSE CASE FieldType(f) = "int" ->
                /\ body[f].t = "int"
                /\ body[f].n >= FieldBounds[f].ge
                /\ body[f].n <= FieldBounds[f].le
           [] FieldType(f) = "bool" -> body[f].t = "bool"
           [] FieldType(f) = "datetime" -> parse_datetime(body[f]).ok
           [] OTHER -> body[f].t = "str"

FieldValue(f, body) ==
    IF f \notin DOMAIN body THEN FieldDefaults[f]
    ELSE CASE FieldType(f) = "int" -> body[f].n
           [] FieldType(f) = "bool" -> (body[f].n = 1)
           [] FieldType(f) = "datetime" -> parse_datetime(body[f])
           [] OTHER -> body[f].s

Valid(fields, body) == \A f \in Range(fields) : FieldOk(f, body)

\* the validated object: exactly the fields of the model
Parse(fields, body) == [f \in Range(fields) |-> FieldValue(f, body)]

(***************************************************************************)
(* api.py: pure functions                                                  *)
(***************************************************************************)
\* variant: the labels of medium and high exchanged
STRESS_LEVEL_swapped ==
    <<"Nizkiy uroven stressa", "Vysokiy uroven stressa", "Sredniy uroven stressa">>

STRESS_LEVEL ==
    <<"Nizkiy uroven stressa", "Sredniy uroven stressa", "Vysokiy uroven stressa">>

\* list[i] of Python: a negative index counts from the end, an index outside
\* -len..len-1 raises IndexError
IndexInRange(list, i) == i >= -Len(list) /\ i < Len(list)

ListItem(list, i) == IF i >= 0 THEN list[i + 1] ELSE list[Len(list) + i + 1]

\* get_prediction, given what joblib.load and model.predict produce: loaded
\* is FALSE when the artifact cannot be loaded, index is prediction[0]
get_prediction(loaded, index) ==
    IF loaded /\ IndexInRange(STRESS_LEVEL, index)
    THEN [ok |-> TRUE, label |-> ListItem(STRESS_LEVEL, index)]
    ELSE [ok |-> FALSE, label |-> ""]

\* int(value) on a validated field
int(f, value) == IF FieldType(f) = "bool" THEN (IF value THEN 1 ELSE 0) ELSE value

\* variant: mental_health_history excluded as well
excluded_with_history ==
    {"first_name", "last_name", "surname", "info_date", "mental_health_history"}

excluded == {"first_name", "last_name", "surname", "info_date"}

IsFeatureKey(k) == k \notin excluded

\* parse_features: the items of worker.dict(), in key order, whose key is not
\* excluded
parse_features(w) ==
    LET keys == SelectSeq(WorkerWithFeatures, IsFeatureKey)
    IN  [i \in 1..Len(keys) |-> [key |-> keys[i], value |-> int(keys[i], w[keys[i]])]]

\* the cast of dtype="int8"
ToInt8(v) == ((v + 128) % 256) - 128

DataFrame(features) ==
    [i \in 1..Len(features) |->
        [key |-> features[i].key, value |-> ToInt8(features[i].value)]]

\* values of save_features: worker.dict() without mental_health_history
FeatureValues(w) == [f \in DOMAIN w \ {"mental_health_history"} |-> w[f]]

(***************************************************************************)
(* Responses                                                               *)
(***************************************************************************)
FeaturesDetail == "Ne udalos sohranit pokazateli rabotnika"

PredictionDetail == "Ne udalos sohranit prognoz"

AddDetail == "Ne udalos dobavit rabotnika"

DeleteDetail == "Ne udalos udalit rabotnika"

AddedMessage(w) ==
    "Rabotnik " \o w.first_name \o " " \o w.last_name \o " byl uspeshno dobavlen"

DeletedMessage(w) ==
    "Rabotnik " \o w.first_name \o " " \o w.last_name \o " byl uspeshno udalen"

HTTPException(status_code, detail) ==
    [status |-> status_code, key |-> "detail", text |-> detail, model |-> None]

\* a body that fails validation never reaches the handler
RequestValidationError ==
    [status |-> 422, key |-> "detail", text |-> "validation error", model |-> None]

\* an exception no handler catches
InternalServerError ==
    [status |-> 500, key |-> "text", text |-> "Internal Server Error", model |-> None]

\* the routes: the model of the body and the status of a returned value
\* (no decorator passes status_code, so each route keeps the default)
Routes ==
    [worker_stress_level |-> [body |-> WorkerWithFeatures, status_code |-> 200],
     create_worker       |-> [body |-> WorkerWithHistory, status_code |-> 200],
     delete_worker       |-> [body |-> WorkerBase, status_code |-> 200]]

MessageResponse(route, message) ==
    [status |-> Routes[route].status_code, key |-> "message", text |-> message,
     model |-> None]

ModelResponse(route, obj) ==
    [status |-> Routes[route].status_code, key |-> "model", text |-> "",
     model |-> obj]

(***************************************************************************)
(* The external collaborators                                              *)
(***************************************************************************)
\* why a storage call raised
Causes == {"connectivity", "constraint violation", "timeout"}

Outcomes == {"ok"} \cup Causes

\* what model.predict may return
ClassIndices == (-(MaxIndex + 1))..MaxIndex

Append1(f, r, e) == [f EXCEPT ![r] = Append(@, e)]

(***************************************************************************)
(* The except clauses of the four storage calls: e is the exception caught *)
(***************************************************************************)
\* variant: the text of the caught exception is passed on
save_features_except_leaking(e) == HTTPException(500, e)

save_features_except(e) == HTTPException(500, FeaturesDetail)

save_prediction_except(e) == HTTPException(500, PredictionDetail)

create_worker_except(e) == HTTPException(500, AddDetail)

delete_worker_except(e) == HTTPException(500, DeleteDetail)

(***************************************************************************)
(* Request bodies                                                          *)
(***************************************************************************)
Person(first, last, sur) ==
    [first_name |-> JStr(first), last_name |-> JStr(last), surname |-> JStr(sur)]

Ivanov == Person("Ivan", "Ivanov", "Ivanovich")

Petrova == Person("Anna", "Petrova", "Sergeevna")

History(flag) == [mental_health_history |-> JBool(flag)]

Dated(text) == [info_date |-> JStr(text)]

Scores(a, se, d, h, bp, sq, br, n, ss, ea) ==
    [anxiety |-> JInt(a), self_esteem |-> JInt(se), depression |-> JInt(d),
     headache |-> JInt(h), blood_pressure |-> JInt(bp), sleep_quality |-> JInt(sq),
     breathing_problem |-> JInt(br), noise_level |-> JInt(n),
     social_support |-> JInt(ss), extracurricular_activities |-> JInt(ea)]

Without(body, f) == [g \in DOMAIN body \ {f} |-> body[g]]

ExampleBody ==
    Ivanov @@ History(TRUE) @@ Dated("2023-06-01 09:00:00")
           @@ Scores(10, 20, 5, 2, 2, 3, 1, 2, 1, 3)

SecondBody ==
    Ivanov @@ History(FALSE) @@ Dated("2024-01-15 10:30:00")
           @@ Scores(21, 30, 27, 5, 3, 5, 5, 5, 3, 5)

ThirdBody ==
    Without(Petrova @@ History(FALSE) @@ Dated("2024-1-5 1:2:3")
                    @@ Scores(0, 0, 0, 0, 1, 0, 0, 0, 0, 0), "blood_pressure")

BadDates ==
    {"2024-01-15", "2024/01/15 10:30:00", "2023-02-30 09:00:00",
     "2024-01-15 24:00:00", "2024-01-15 10:30:00Z", ""}

\* the bodies of the concurrent runs
FeatureBodies ==
    {ExampleBody, ThirdBody,
     [ExampleBody EXCEPT !.anxiety = JInt(22)],
     [ExampleBody EXCEPT !.info_date = JStr("2024-01-15")],
     Without(ExampleBody, "depression")}

HistoryBodies == {Petrova @@ History(FALSE), Ivanov}

IdentityBodies == {Ivanov, Without(Petrova, "surname")}

\* create_worker declares the query parameter status_code, default 201
QueryParams == {[status_code |-> 201], [status_code |-> 404]}

\* the bodies of the single-request runs: one field of a valid body varied
\* over its range and a margin around it, given a value of another type, or
\* left out
WideBodies ==
    UNION {
      UNION {{[base EXCEPT ![f] = JInt(v)] :
                v \in (FieldBounds[f].ge - Margin)..(FieldBounds[f].le + Margin)}
             : f \in IntFields}
      \cup {[base EXCEPT ![f] = JStr("abc")] : f \in IntFields}
      \cup {Without(base, f) : f \in Range(WorkerWithFeatures)}
      \cup {[base EXCEPT !.info_date = JStr(d)] : d \in BadDates}
      \cup {[base EXCEPT !.info_date = JInt(20240115)],
            [base EXCEPT !.mental_health_history = JStr("abc")]}
      : base \in {ExampleBody, SecondBody}}

(***************************************************************************)
(* State                                                                   *)
(*   pc[r]      where request r stands                                     *)
(*   op[r]      the route it came in on                                    *)
(*   raw[r]     its JSON body, query[r] its query parameters               *)
(*   worker[r]  the validated body handed to the handler                   *)
(*   worker_prediction[r]  the handler's local of that name                *)
(*   trace[r]   the storage and classifier calls r made, in order          *)
(*   resp[r]    its response                                               *)
(*   database   the CALL statements the store executed, per procedure      *)
(***************************************************************************)
Init ==
    /\ pc = [r \in Reqs |-> "idle"]
    /\ op = [r \in Reqs |-> "none"]
    /\ raw = [r \in Reqs |-> None]
    /\ query = [r \in Reqs |-> <<>>]
    /\ worker = [r \in Reqs |-> None]
    /\ worker_prediction = [r \in Reqs |-> None]
    /\ trace = [r \in Reqs |-> <<>>]
    /\ resp = [r \in Reqs |-> None]
    /\ database = [save_features |-> {}, save_prediction |-> {},
                   add_worker |-> {}, delete_worker |-> {}]

Entry ==
    [worker_stress_level |-> "save_features", create_worker |-> "add_worker",
     delete_worker |-> "delete_worker"]

\* a request arrives: the body is validated against the model of the
\* handler's parameter, and only a valid one enters the handler
Receive(r, route, body, q) ==
    /\ pc[r] = "idle"
    /\ op' = [op EXCEPT ![r] = route]
    /\ raw' = [raw EXCEPT ![r] = body]
    /\ query' = [query EXCEPT ![r] = q]
    /\ IF Valid(Routes[route].body, body)
       THEN /\ worker' = [worker EXCEPT ![r] = Parse(Routes[route].body, body)]
            /\ pc' = [pc EXCEPT ![r] = Entry[route]]
            /\ UNCHANGED resp
       ELSE /\ resp' = [resp EXCEPT ![r] = RequestValidationError]
            /\ pc' = [pc EXCEPT ![r] = "done"]
            /\ UNCHANGED worker
    /\ UNCHANGED <<worker_prediction, trace, database>>

PostWorkerStressLevel(r) ==
    \E body \in FeatureBodies : Receive(r, "worker_stress_level", body, <<>>)

PostCreateWorker(r) ==
    \E body \in HistoryBodies, q \in QueryParams : Receive(r, "create_worker", body, q)

DeleteDeleteWorker(r) ==
    \E body \in IdentityBodies : Receive(r, "delete_worker", body, <<>>)

\* variant: the failure of the storage call is swallowed and the handler
\* goes on
save_features_swallowing(r) ==
    /\ pc[r] = "save_features"
    /\ \E outcome \in Outcomes :
         LET values == FeatureValues(worker[r])
         IN  /\ trace' = Append1(trace, r, [call |-> "save_features",
                                           values |-> values, outcome |-> outcome])
             /\ IF outcome = "ok"
                THEN database' = [database EXCEPT !.save_features = @ \cup {values}]
                ELSE UNCHANGED database
             /\ pc' = [pc EXCEPT ![r] = "predict"]
             /\ UNCHANGED resp
    /\ UNCHANGED <<op, raw, query, worker, worker_prediction>>

\* await save_features(worker)
save_features(r) ==
    /\ pc[r] = "save_features"
    /\ \E outcome \in Outcomes :
         LET values == FeatureValues(worker[r])
         IN  /\ trace' = Append1(trace, r, [call |-> "save_features",
                                           values |-> values, outcome |-> outcome])
             /\ IF outcome = "ok"
                THEN /\ database' = [database EXCEPT !.save_features = @ \cup {values}]
                     /\ pc' = [pc EXCEPT ![r] = "predict"]
                     /\ UNCHANGED resp
                ELSE /\ resp' = [resp EXCEPT ![r] = save_features_except(outcome)]
                     /\ pc' = [pc EXCEPT ![r] = "done"]
                     /\ UNCHANGED database
    /\ UNCHANGED <<op, raw, query, worker, worker_prediction>>

\* variant: the worker is read from one module-level slot, which the first
\* request fills
predict_shared_worker(r) ==
    /\ pc[r] = "predict"
    /\ \E loaded \in BOOLEAN, index \in ClassIndices :
         LET shared == IF op[1] = "worker_stress_level" /\ worker[1] # None
                       THEN worker[1] ELSE worker[r]
             X == DataFrame(parse_features(shared))
             prediction == get_prediction(loaded, index)
         IN  /\ loaded \/ index = 0
             /\ trace' = Append1(trace, r, [call |-> "predict", data |-> X,
                                           loaded |-> loaded, index |-> index])
             /\ IF prediction.ok
                THEN /\ worker_prediction' =
                          [worker_prediction EXCEPT ![r] =
                              [first_name |-> shared.first_name,
                               last_name |-> shared.last_name,
                               surname |-> shared.surname,
                               stress_level |-> prediction.label]]
                     /\ pc' = [pc EXCEPT ![r] = "save_prediction"]
                     /\ UNCHANGED resp
                ELSE /\ resp' = [resp EXCEPT ![r] = InternalServerError]
                     /\ pc' = [pc EXCEPT ![r] = "done"]
                     /\ UNCHANGED worker_prediction
    /\ UNCHANGED <<op, raw, query, worker, database>>

\* X = DataFrame([parse_features(worker)]); prediction = get_prediction(X);
\* worker_prediction = WorkerWithPrediction(...)
predict(r) ==
    /\ pc[r] = "predict"
    /\ \E loaded \in BOOLEAN, index \in ClassIndices :
         LET X == DataFrame(parse_features(worker[r]))
             prediction == get_prediction(loaded, index)
         IN  /\ loaded \/ index = 0
             /\ trace' = Append1(trace, r, [call |-> "predict", data |-> X,
                                           loaded |-> loaded, index |-> index])
             /\ IF prediction.ok
                THEN /\ worker_prediction' =
                          [worker_prediction EXCEPT ![r] =
                              [first_name |-> worker[r].first_name,
                               last_name |-> worker[r].last_name,
                               surname |-> worker[r].surname,
                               stress_level |-> prediction.label]]
                     /\ pc' = [pc EXCEPT ![r] = "save_prediction"]
                     /\ UNCHANGED resp
                ELSE /\ resp' = [resp EXCEPT ![r] = InternalServerError]
                     /\ pc' = [pc EXCEPT ![r] = "done"]
                     /\ UNCHANGED worker_prediction
    /\ UNCHANGED <<op, raw, query, worker, database>>

\* variant: a failed prediction save takes the feature record back
save_prediction_rollback(r) ==
    /\ pc[r] = "save_prediction"
    /\ \E outcome \in Outcomes :
         LET values == worker_prediction[r]
         IN  /\ trace' = Append1(trace, r, [call |-> "save_prediction",
                                           values |-> values, outcome |-> outcome])
             /\ IF outcome = "ok"
                THEN /\ database' = [database EXCEPT !.save_prediction = @ \cup {values}]
                     /\ resp' = [resp EXCEPT ![r] =
                                   ModelResponse("worker_stress_level", worker_prediction[r])]
                ELSE /\ resp' = [resp EXCEPT ![r] = save_prediction_except(outcome)]
                     /\ database' = [database EXCEPT !.save_features =
                                        @ \ {FeatureValues(worker[r])}]
             /\ pc' = [pc EXCEPT ![r] = "done"]
    /\ UNCHANGED <<op, raw, query, worker, worker_prediction>>

\* await save_prediction(worker_prediction); return worker_prediction
save_prediction(r) ==
    /\ pc[r] = "save_prediction"
    /\ \E outcome \in Outcomes :
         LET values == worker_prediction[r]
         IN  /\ trace' = Append1(trace, r, [call |-> "save_prediction",
                                           values |-> values, outcome |-> outcome])
             /\ IF outcome = "ok"
                THEN /\ database' = [database EXCEPT !.save_prediction = @ \cup {values}]
                     /\ resp' = [resp EXCEPT ![r] =
                                   ModelResponse("worker_stress_level", worker_prediction[r])]
                ELSE /\ resp' = [resp EXCEPT ![r] = save_prediction_except(outcome)]
                     /\ UNCHANGED database
             /\ pc' = [pc EXCEPT ![r] = "done"]
    /\ UNCHANGED <<op, raw, query, worker, worker_prediction>>

\* the handler of POST /create_worker/
create_worker(r) ==
    /\ pc[r] = "add_worker"
    /\ \E outcome \in Outcomes :
         LET values == worker[r]
         IN  /\ trace' = Append1(trace, r, [call |-> "add_worker",
                                           values |-> values, outcome |-> outcome])
             /\ IF outcome = "ok"
                THEN /\ database' = [database EXCEPT !.add_worker = @ \cup {values}]
                     /\ resp' = [resp EXCEPT ![r] =
                                   MessageResponse("create_worker", AddedMessage(worker[r]))]
                ELSE /\ resp' = [resp EXCEPT ![r] = create_worker_except(outcome)]
                     /\ UNCHANGED database
             /\ pc' = [pc EXCEPT ![r] = "done"]
    /\ UNCHANGED <<op, raw, query, worker, worker_prediction>>

\* the handler of DELETE /delete_worker/
delete_worker(r) ==
    /\ pc[r] = "delete_worker"
    /\ \E outcome \in Outcomes :
         LET values == worker[r]
         IN  /\ trace' = Append1(trace, r, [call |-> "delete_worker",
                                           values |-> values, outcome |-> outcome])
             /\ IF outcome = "ok"
                THEN /\ database' = [database EXCEPT !.delete_worker = @ \cup {values}]
                     /\ resp' = [resp EXCEPT ![r] =
                                   MessageResponse("delete_worker", DeletedMessage(worker[r]))]
                ELSE /\ resp' = [resp EXCEPT ![r] = delete_worker_except(outcome)]
                     /\ UNCHANGED database
             /\ pc' = [pc EXCEPT ![r] = "done"]
    /\ UNCHANGED <<op, raw, query, worker, worker_prediction>>

Next ==
    \E r \in Reqs :
        \/ PostWorkerStressLevel(r)
        \/ PostCreateWorker(r)
        \/ DeleteDeleteWorker(r)
        \/ save_features(r)
        \/ predict(r)
        \/ save_prediction(r)
        \/ create_worker(r)
        \/ delete_worker(r)

Spec == Init /\ [][Next]_vars

\* one request at a time, its body drawn from WideBodies
PostWide == \E body \in WideBodies : Receive(1, "worker_stress_level", body, <<>>)

NextWide ==
    \/ PostWide
    \/ save_features(1)
    \/ predict(1)
    \/ save_prediction(1)

SpecWide == Init /\ [][NextWide]_vars

(***************************************************************************)
(* Properties                                                              *)
(***************************************************************************)
Events(r, name) == {i \in 1..Len(trace[r]) : trace[r][i].call = name}

StorageCalls == {"save_features", "save_prediction", "add_worker", "delete_worker"}

Failed(e) == e.call \in StorageCalls /\ e.outcome # "ok"

\* the table of the integer scores: inclusive range, in the fixed order
ScoreOrder ==
    <<"anxiety", "self_esteem", "depression", "headache", "blood_pressure",
      "sleep_quality", "breathing_problem", "noise_level", "social_support",
      "extracurricular_activities">>

ScoreTable ==
    [anxiety |-> <<0, 21>>, self_esteem |-> <<0, 30>>, depression |-> <<0, 27>>,
     headache |-> <<0, 5>>, blood_pressure |-> <<1, 3>>, sleep_quality |-> <<0, 5>>,
     breathing_problem |-> <<0, 5>>, noise_level |-> <<0, 5>>,
     social_support |-> <<0, 3>>, extracurricular_activities |-> <<0, 5>>]

\* the value of a score as submitted (blood_pressure defaults to 1)
Submitted(body, f) == IF f \in DOMAIN body THEN body[f].n ELSE 1

\* C1: when the storage call of save_features fails, the request ends with
\* status 500 and the features message, and it makes no further call: the
\* classifier is not invoked and save_prediction is not attempted.
C1_FeatureSaveFailureAborts ==
    \A r \in Reqs :
        (Len(trace[r]) >= 1 /\ trace[r][1].call = "save_features"
                            /\ trace[r][1].outcome # "ok")
        => /\ pc[r] = "done"
           /\ resp[r].status = 500
           /\ resp[r].key = "detail"
           /\ resp[r].text = "Ne udalos sohranit pokazateli rabotnika"
           /\ Len(trace[r]) = 1
           /\ Events(r, "predict") = {}
           /\ Events(r, "save_prediction") = {}
           /\ worker_prediction[r] = None

C1_Witness ==
    \E r \in Reqs : /\ pc[r] = "done"
                    /\ Events(r, "save_features") # {}
                    /\ trace[r][1].outcome = "timeout"

\* C2: when save_features succeeded and the storage call of save_prediction
\* fails, the request ends with status 500 and the prediction message, which
\* is not the features message; the feature record is still in the store and
\* the request issued no other call (no delete, no rollback).
C2_PredictionSaveFailureKeepsFeatures ==
    \A r \in Reqs :
        \A i \in Events(r, "save_prediction") :
            trace[r][i].outcome # "ok"
            => /\ pc[r] = "done"
               /\ resp[r].status = 500
               /\ resp[r].key = "detail"
               /\ resp[r].text = "Ne udalos sohranit prognoz"
               /\ resp[r].text # "Ne udalos sohranit pokazateli rabotnika"
               /\ trace[r][1].call = "save_features"
               /\ trace[r][1].outcome = "ok"
               /\ trace[r][1].values \in database.save_features
               /\ i = 3 /\ Len(trace[r]) = 3
               /\ Events(r, "delete_worker") = {}

C2_Witness ==
    \E r \in Reqs : /\ pc[r] = "done"
                    /\ Len(trace[r]) = 3
                    /\ trace[r][3].outcome = "connectivity"
                    /\ trace[r][1].values \in database.save_features

\* what makes a body fail the schema: a required field left out, a score that
\* is no integer or lies outside its range, a malformed info_date, a value of
\* the wrong type
SchemaViolation(f, body) ==
    IF f \notin DOMAIN body THEN f # "blood_pressure"
    ELSE IF f \in DOMAIN ScoreTable
         THEN \/ body[f].t # "int"
              \/ body[f].n < ScoreTable[f][1]
              \/ body[f].n > ScoreTable[f][2]
    ELSE IF f = "info_date" THEN ~parse_datetime(body[f]).ok
    ELSE IF f = "mental_health_history" THEN body[f].t # "bool"
    ELSE body[f].t # "str"

FailsSchema(r) ==
    /\ op[r] # "none"
    /\ \E f \in Range(Routes[op[r]].body) : SchemaViolation(f, raw[r])

\* C3: a request whose body fails schema validation makes no storage call
\* and no classifier call; it is answered 422 without entering the handler.
C3_InvalidInputHasNoSideEffect ==
    \A r \in Reqs :
        FailsSchema(r) => /\ trace[r] = <<>>
                          /\ worker[r] = None
                          /\ worker_prediction[r] = None
                          /\ pc[r] = "done"
                          /\ resp[r].status = 422

C3_Witness ==
    \E r1, r2 \in Reqs :
        /\ FailsSchema(r1) /\ op[r1] = "worker_stress_level" /\ pc[r1] = "done"
        /\ FailsSchema(r2) /\ op[r2] = "create_worker" /\ pc[r2] = "done"

\* the keys of the vector handed to the classifier
Keys(data) == [i \in 1..Len(data) |-> data[i].key]

\* C4 as stated: the vector handed to the classifier holds exactly the ten
\* scores of the table, in table order, each equal to the submitted value,
\* and nothing else.
C4_VectorIsExactlyTheScores ==
    \A r \in Reqs :
        \A i \in Events(r, "predict") :
            /\ Keys(trace[r][i].data) = ScoreOrder
            /\ \A j \in 1..Len(ScoreOrder) :
                 trace[r][i].data[j].value = Submitted(raw[r], ScoreOrder[j])

\* C4 amended: the vector holds mental_health_history as 0 or 1 first, then
\* the ten scores of the table in table order, each equal to the submitted
\* value, and nothing else: only the identity fields and info_date are
\* excluded.
C4_VectorIsHistoryThenScores ==
    \A r \in Reqs :
        \A i \in Events(r, "predict") :
            LET data == trace[r][i].data
            IN  /\ Keys(data) = <<"mental_health_history">> \o ScoreOrder
                /\ data[1].value = raw[r].mental_health_history.n
                /\ data[1].value \in {0, 1}
                /\ \A j \in 1..Len(ScoreOrder) :
                     data[j + 1].value = Submitted(raw[r], ScoreOrder[j])
                /\ \A j \in 1..Len(data) :
                     data[j].key \notin {"first_name", "last_name", "surname", "info_date"}

C4_Witness ==
    \E r \in Reqs :
        /\ Events(r, "predict") # {}
        /\ "blood_pressure" \notin DOMAIN raw[r]
        /\ raw[r].mental_health_history.n = 1

\* C5: whenever the classifier returns an index outside {0, 1, 2}, the
\* request fails: no label is produced and no prediction is saved.
C5_OutOfDomainIndexFails ==
    \A r \in Reqs :
        \A i \in Events(r, "predict") :
            (trace[r][i].loaded /\ trace[r][i].index \notin {0, 1, 2})
            => /\ worker_prediction[r] = None
               /\ Events(r, "save_prediction") = {}
               /\ pc[r] = "done"
               /\ resp[r].status = 500

\* C6: for an index i of {0, 1, 2} the label is the i-th of (low, medium,
\* high); the three labels are pairwise distinct.
C6_IndexToLabel ==
    /\ Cardinality(Range(STRESS_LEVEL)) = 3
    /\ \A r \in Reqs :
         \A i \in Events(r, "predict") :
            (trace[r][i].loaded /\ trace[r][i].index \in {0, 1, 2})
            => /\ worker_prediction[r] # None
               /\ worker_prediction[r].stress_level =
                     CASE trace[r][i].index = 0 -> "Nizkiy uroven stressa"
                       [] trace[r][i].index = 1 -> "Sredniy uroven stressa"
                       [] trace[r][i].index = 2 -> "Vysokiy uroven stressa"

C6_Witness ==
    \E r \in Reqs :
        /\ Events(r, "predict") # {}
        /\ trace[r][2].loaded /\ trace[r][2].index = 1
        /\ worker_prediction[r] # None

\* C7: a create-worker request with a valid body whose storage call succeeds
\* is answered with status 201 and the success message naming first_name and
\* last_name, whatever else the caller supplies.
C7_CreatedStatus ==
    \A r \in Reqs :
        (op[r] = "create_worker" /\ pc[r] = "done"
         /\ Events(r, "add_worker") # {} /\ trace[r][1].outcome = "ok")
        => /\ resp[r].status = 201
           /\ resp[r].key = "message"
           /\ resp[r].text = "Rabotnik " \o raw[r].first_name.s \o " "
                             \o raw[r].last_name.s \o " byl uspeshno dobavlen"

\* the fixed message of a storage call
FixedDetail(call) ==
    CASE call = "save_features"   -> FeaturesDetail
      [] call = "save_prediction" -> PredictionDetail
      [] call = "add_worker"      -> AddDetail
      [] call = "delete_worker"   -> DeleteDetail

LastEvent(r) == trace[r][Len(trace[r])]

FailedAt(r) == trace[r] # <<>> /\ Failed(LastEvent(r))

\* C8: a failed storage call is answered with status 500 and the one fixed
\* message of the failing operation; two requests failing in the same
\* operation get the same response whatever the cause; the four messages are
\* pairwise distinct; a failure never carries a success message.
C8_FailureResponseHidesCause ==
    /\ Cardinality({FixedDetail(c) : c \in StorageCalls}) = 4
    /\ \A r \in Reqs :
         /\ (\E i \in 1..Len(trace[r]) : Failed(trace[r][i])) => FailedAt(r)
         /\ FailedAt(r)
            => /\ pc[r] = "done"
               /\ resp[r].status = 500
               /\ resp[r].key = "detail"
               /\ resp[r].text = FixedDetail(LastEvent(r).call)
               /\ resp[r].model = None
    /\ \A r1, r2 \in Reqs :
         (FailedAt(r1) /\ FailedAt(r2) /\ LastEvent(r1).call = LastEvent(r2).call)
         => resp[r1] = resp[r2]

C8_Witness ==
    \E r1, r2 \in Reqs :
        /\ FailedAt(r1) /\ FailedAt(r2)
        /\ LastEvent(r1).call = LastEvent(r2).call
        /\ LastEvent(r1).outcome # LastEvent(r2).outcome

\* the body differs from a valid one at most in the values of its integer
\* scores
OnlyScoresVary(body) ==
    /\ \A f \in Range(WorkerWithFeatures) \ DOMAIN ScoreTable :
         f \in DOMAIN body /\ ~SchemaViolation(f, body)
    /\ \A f \in DOMAIN ScoreTable : f \in DOMAIN body /\ body[f].t = "int"

\* C9: an integer score v is accepted exactly when min <= v <= max of its
\* row of the table; every accepted value fits a signed 8-bit integer and
\* reaches the classifier unchanged by the int8 cast.
C9_RangeValidation ==
    \A r \in Reqs :
        (op[r] = "worker_stress_level" /\ OnlyScoresVary(raw[r]))
        => /\ (worker[r] # None) <=>
                 \A f \in DOMAIN ScoreTable :
                    raw[r][f].n >= ScoreTable[f][1] /\ raw[r][f].n <= ScoreTable[f][2]
           /\ worker[r] # None
              => \A f \in DOMAIN ScoreTable :
                    /\ worker[r][f] = raw[r][f].n
                    /\ worker[r][f] >= -128 /\ worker[r][f] <= 127
           /\ \A i \in Events(r, "predict") :
                 \A j \in 1..Len(trace[r][i].data) :
                    LET item == trace[r][i].data[j]
                    IN  item.key \in DOMAIN ScoreTable => item.value = raw[r][item.key].n

C9_Witness ==
    \E r \in Reqs :
        /\ OnlyScoresVary(raw[r])
        /\ raw[r].self_esteem.n = 30
        /\ worker[r] # None
        /\ Events(r, "predict") # {}

\* the calls of a submit-features request that met no failure, up to where
\* it stands
ExpectedCalls == <<"save_features", "predict", "save_prediction">>

Labels == {"Nizkiy uroven stressa", "Sredniy uroven stressa", "Vysokiy uroven stressa"}

IdentityOf(body) ==
    [first_name |-> body.first_name.s, last_name |-> body.last_name.s,
     surname |-> body.surname.s]

Completed(r) ==
    /\ op[r] = "worker_stress_level"
    /\ pc[r] = "done"
    /\ resp[r].status = 200

\* C10: under any interleaving, a submit-features request makes its calls in
\* the order feature save, classification, prediction save, each at most
\* once; one that meets no failure makes each exactly once, both saves and
\* the response carry its own identity, the classifier sees its own scores,
\* and the saved and returned stress_level is the label of the index the
\* classifier returned to it, one of the three labels.
C10_RequestsAreIndependent ==
    \A r \in Reqs :
        op[r] = "worker_stress_level"
        => /\ Len(trace[r]) <= 3
           /\ \A i \in 1..Len(trace[r]) : trace[r][i].call = ExpectedCalls[i]
           /\ Completed(r)
              => /\ Len(trace[r]) = 3
                 /\ trace[r][1].outcome = "ok" /\ trace[r][3].outcome = "ok"
                 /\ \A f \in {"first_name", "last_name", "surname"} :
                      /\ trace[r][1].values[f] = raw[r][f].s
                      /\ trace[r][3].values[f] = raw[r][f].s
                      /\ resp[r].model[f] = raw[r][f].s
                 /\ \A f \in DOMAIN ScoreTable :
                      trace[r][1].values[f] = Submitted(raw[r], f)
                 /\ \A j \in 1..Len(trace[r][2].data) :
                      LET item == trace[r][2].data[j]
                      IN  item.key \in DOMAIN ScoreTable
                          => item.value = Submitted(raw[r], item.key)
                 /\ trace[r][3].values.stress_level \in Labels
                 /\ trace[r][3].values.stress_level =
                       ListItem(STRESS_LEVEL, trace[r][2].index)
                 /\ resp[r].model = trace[r][3].values
                 /\ trace[r][1].values \in database.save_features
                 /\ trace[r][3].values \in database.save_prediction

C10_Witness ==
    \E r1, r2 \in Reqs :
        /\ r1 # r2
        /\ Completed(r1) /\ Completed(r2)
        /\ IdentityOf(raw[r1]) # IdentityOf(raw[r2])
        /\ trace[r1][2].index # trace[r2][2].index

====
